---------------------------- MODULE Spec2Model ----------------------------
(***************************************************************************)
(* Model of the resolution and confirmation pipeline of src/main.py:       *)
(* text normalisation, card-token extraction, account resolution, the     *)
(* per-chat pending store and the text / confirm / cancel handlers.        *)
(*                                                                         *)
(* Python values are represented as follows.                               *)
(*   str            a tuple of one-character strings                       *)
(*   None           the empty tuple  (None)                                *)
(*   x: T | None    a tuple of length at most one  (Some(x) or None)       *)
(*   dict           a function whose DOMAIN is the set of keys             *)
(*   float          Float(v) for the number v, an integer here, or NaN     *)
(***************************************************************************)
EXTENDS Integers, Sequences, FiniteSets, TLC

VARIABLES
    _pending,   \* the module-level dict chat_id -> PendingTransaction
    ledger,     \* the transactions the ledger service has accepted
    config,     \* application.bot_data["config"]
    event,      \* the update being handled or handled last: its inputs, the
                \* collaborators' answers during its handling, its outcome
    arg,        \* direct calls: the arguments, or the log of calls so far
    ret,        \* direct calls: the result of the latest call
    tasks       \* handler coroutines in flight on the event loop

vars == <<_pending, ledger, config, event, arg, ret, tasks>>

None == <<>>
Some(x) == <<x>>

(***************************************************************************)
(* Characters and str methods                                              *)
(***************************************************************************)
UpperChars == <<"A","B","C","D","E","F","G","H","I","J","K","L","M",
                "N","O","P","Q","R","S","T","U","V","W","X","Y","Z">>
LowerChars == <<"a","b","c","d","e","f","g","h","i","j","k","l","m",
                "n","o","p","q","r","s","t","u","v","w","x","y","z">>
DigitChars == <<"0","1","2","3","4","5","6","7","8","9">>

IsUpper(ch) == \E i \in 1..26 : UpperChars[i] = ch
IsLower(ch) == \E i \in 1..26 : LowerChars[i] = ch
IsDigit(ch) == \E i \in 1..10 : DigitChars[i] = ch
IsAlnum(ch) == IsUpper(ch) \/ IsLower(ch) \/ IsDigit(ch)
IsSpace(ch) == ch \in {" ", "\t", "\n"}

\* str.lower() on one character
LowerCh(ch) ==
    IF IsUpper(ch) THEN LowerChars[CHOOSE i \in 1..26 : UpperChars[i] = ch]
    ELSE ch

\* str.lower()
lower(s) == [i \in 1..Len(s) |-> LowerCh(s[i])]

\* value of one decimal digit
DigitVal(ch) == (CHOOSE i \in 1..10 : DigitChars[i] = ch) - 1

\* str.strip()
RECURSIVE lstrip(_)
lstrip(s) ==
    IF s # <<>> /\ IsSpace(Head(s)) THEN lstrip(Tail(s)) ELSE s

RECURSIVE rstrip(_)
rstrip(s) ==
    IF s # <<>> /\ IsSpace(s[Len(s)]) THEN rstrip(SubSeq(s, 1, Len(s) - 1)) ELSE s

strip(s) == rstrip(lstrip(s))

\* str.isdigit()
isdigit(s) == s # <<>> /\ \A i \in 1..Len(s) : IsDigit(s[i])

\* int(s) for a string of decimal digits
RECURSIVE int(_)
int(s) ==
    IF s = <<>> THEN 0
    ELSE 10 * int(SubSeq(s, 1, Len(s) - 1)) + DigitVal(s[Len(s)])

\* str.split(): the maximal runs of non-whitespace characters, in order
RECURSIVE SplitFrom(_, _, _)
SplitFrom(s, i, cur) ==
    IF i > Len(s) THEN (IF cur = <<>> THEN <<>> ELSE <<cur>>)
    ELSE IF IsSpace(s[i])
         THEN (IF cur = <<>> THEN SplitFrom(s, i + 1, <<>>)
               ELSE <<cur>> \o SplitFrom(s, i + 1, <<>>))
         ELSE SplitFrom(s, i + 1, Append(cur, s[i]))

split(s) == SplitFrom(s, 1, <<>>)

\* " ".join(words)
RECURSIVE join(_)
join(words) ==
    IF words = <<>> THEN <<>>
    ELSE IF Len(words) = 1 THEN words[1]
    ELSE words[1] \o <<" ">> \o join(Tail(words))

\* a in b, for strings
In(a, b) ==
    \E i \in 0..(Len(b) - Len(a)) : SubSeq(b, i + 1, i + Len(a)) = a

\* s[p:p+len(lit)] == lit  (p is a 1-based index)
LitAt(s, p, lit) ==
    /\ p + Len(lit) - 1 <= Len(s)
    /\ SubSeq(s, p, p + Len(lit) - 1) = lit

Range(f) == {f[i] : i \in DOMAIN f}

Min(S) == CHOOSE x \in S : \A y \in S : x <= y

(***************************************************************************)
(* _normalize                                                              *)
(***************************************************************************)
_normalize(value) ==
    LET normalized == [i \in 1..Len(value) |->
                          IF IsAlnum(value[i]) THEN LowerCh(value[i]) ELSE " "]
    IN  join(split(strip(normalized)))

(***************************************************************************)
(* _find_text_tokens                                                       *)
(*                                                                         *)
(* Each labelled pattern is a head, a gap and a captured group of four     *)
(* digits.  The head, the gap and the digits are over disjoint character   *)
(* classes, so a match starting at a given position is unique; findall     *)
(* reports the leftmost match and resumes the scan after its end.          *)
(***************************************************************************)
\* one past the last index of the run of characters satisfying a class
RECURSIVE SpaceRunEnd(_, _)
SpaceRunEnd(s, p) ==
    IF p <= Len(s) /\ IsSpace(s[p]) THEN SpaceRunEnd(s, p + 1) ELSE p

RECURSIVE NonDigitRunEnd(_, _)
NonDigitRunEnd(s, p) ==
    IF p <= Len(s) /\ ~IsDigit(s[p]) THEN NonDigitRunEnd(s, p + 1) ELSE p

RECURSIVE SameRunEnd(_, _, _)
SameRunEnd(s, p, ch) ==
    IF p <= Len(s) /\ s[p] = ch THEN SameRunEnd(s, p + 1, ch) ELSE p

FourDigitsAt(s, p) ==
    /\ p >= 1
    /\ p + 3 <= Len(s)
    /\ \A k \in 0..3 : IsDigit(s[p + k])

\* (?<!\d)(\d{4})(?!\d)
BareTokens(text) ==
    {SubSeq(text, p, p + 3) : p \in
        {q \in 1..Len(text) :
            /\ FourDigitsAt(text, q)
            /\ (q = 1 \/ ~IsDigit(text[q - 1]))
            /\ (q + 4 > Len(text) \/ ~IsDigit(text[q + 4]))}}

\* the heads of the three labelled patterns; s is the lower-cased text and
\* the result is the set of indices just past a head that starts at p
EndingHeads == {<<"e", "n", "d", "i", "n", "g">>, <<"l", "a", "s", "t", "4">>}
CardHeads == {<<"c", "a", "r", "d">>, <<"v", "i", "s", "a">>, <<"m", "a", "s", "t", "e", "r", "c", "a", "r", "d">>, <<"a", "m", "e", "x">>, <<"d", "e", "b", "i", "t">>,
              <<"c", "r", "e", "d", "i", "t">>, <<"a", "c", "c", "t">>, <<"a", "c", "c", "o", "u", "n", "t">>}
\* "bullet" stands for the character U+2022
MaskChars == {"x", "*", "#", "bullet"}

HeadEnds1(s, p) ==
    {p + Len(h) : h \in {h \in EndingHeads : LitAt(s, p, h)}}
    \cup (IF LitAt(s, p, <<"e", "n", "d", "s">>)
             /\ SpaceRunEnd(s, p + 4) > p + 4
             /\ LitAt(s, SpaceRunEnd(s, p + 4), <<"w", "i", "t", "h">>)
          THEN {SpaceRunEnd(s, p + 4) + 4} ELSE {})
    \cup (IF LitAt(s, p, <<"l", "a", "s", "t">>)
             /\ LitAt(s, SpaceRunEnd(s, p + 4), <<"4">>)
          THEN {SpaceRunEnd(s, p + 4) + 1} ELSE {})

HeadEnds2(s, p) ==
    {p + Len(h) : h \in {h \in CardHeads : LitAt(s, p, h)}}

HeadEnds3(s, p) ==
    IF p <= Len(s) /\ s[p] \in MaskChars /\ SameRunEnd(s, p, s[p]) >= p + 2
    THEN {SameRunEnd(s, p, s[p])} ELSE {}

\* the index of the captured group of the match whose head ends at e:
\* \D{0,n} for patterns 1 and 2 (n = 8, 24), \s* for pattern 3
GapLimit1 == 8
GapLimit2 == 24

GroupStart(s, e, pat) ==
    LET d == IF pat = 3 THEN SpaceRunEnd(s, e) ELSE NonDigitRunEnd(s, e)
        n == IF pat = 1 THEN GapLimit1 ELSE IF pat = 2 THEN GapLimit2 ELSE Len(s)
    IN  IF d - e <= n /\ FourDigitsAt(s, d) THEN {d} ELSE {}

HeadEnds(s, p, pat) ==
    IF pat = 1 THEN HeadEnds1(s, p)
    ELSE IF pat = 2 THEN HeadEnds2(s, p)
    ELSE HeadEnds3(s, p)

\* the group starts of the matches of pattern pat that start at p
MatchAt(s, p, pat) ==
    UNION {GroupStart(s, e, pat) : e \in HeadEnds(s, p, pat)}

\* re.findall(pattern, text, flags=re.IGNORECASE), scanning from index from
RECURSIVE FindAll(_, _, _)
FindAll(s, from, pat) ==
    LET starts == {p \in from..Len(s) : MatchAt(s, p, pat) # {}}
    IN  IF starts = {} THEN {}
        ELSE LET d == Min(MatchAt(s, Min(starts), pat))
             IN  {SubSeq(s, d, d + 3)} \cup FindAll(s, d + 4, pat)

_find_text_tokens(text) ==
    BareTokens(text)
    \cup FindAll(lower(text), 1, 1)
    \cup FindAll(lower(text), 1, 2)
    \cup FindAll(lower(text), 1, 3)

(***************************************************************************)
(* Accounts                                                                *)
(***************************************************************************)
\* an asset of the ledger service; display_name is str | None
Acct(id, display_name, name) ==
    [id |-> id, display_name |-> display_name, name |-> name]

\* account.display_name or account.name
_account_label(account) ==
    IF account.display_name # None /\ account.display_name[1] # <<>>
    THEN account.display_name[1]
    ELSE account.name

\* the (id, label) tuple the resolvers return
IdLabel(acct) == [id |-> acct.id, label |-> _account_label(acct)]

\* next((acct for acct in accounts if acct.id == account_id), None)
FirstWithId(accounts, account_id) ==
    LET hits == {i \in 1..Len(accounts) : accounts[i].id = account_id}
    IN  IF hits = {} THEN None ELSE Some(accounts[Min(hits)])

(***************************************************************************)
(* match_account                                                           *)
(***************************************************************************)
\* the locals of match_account before its loop
MatchInit ==
    [exact |-> None, contains |-> None, contained_by |-> None,
     token_best |-> None, token_best_score |-> 0, token_tie |-> FALSE]

\* len(set(normalized.split()) & needle_tokens)
Overlap(normalized, needle) ==
    Cardinality(Range(split(normalized)) \cap Range(split(needle)))

\* one iteration of the loop for an account that is not an exact match
MatchStep(st, acct, needle) ==
    LET normalized == _normalize(_account_label(acct))
        overlap == Overlap(normalized, needle)
        c1 == IF In(needle, normalized) /\ st.contains = None
              THEN Some(acct) ELSE st.contains
        c2 == IF In(normalized, needle) /\ st.contained_by = None
              THEN Some(acct) ELSE st.contained_by
    IN  IF overlap > st.token_best_score
        THEN [st EXCEPT !.contains = c1, !.contained_by = c2,
                        !.token_best = Some(acct),
                        !.token_best_score = overlap,
                        !.token_tie = FALSE]
        ELSE IF overlap # 0 /\ overlap = st.token_best_score
        THEN [st EXCEPT !.contains = c1, !.contained_by = c2,
                        !.token_tie = TRUE]
        ELSE [st EXCEPT !.contains = c1, !.contained_by = c2]

\* the loop over accounts from index i on, leaving at the first exact match
RECURSIVE MatchLoop(_, _, _, _)
MatchLoop(accounts, i, needle, st) ==
    IF i > Len(accounts) THEN st
    ELSE IF _normalize(_account_label(accounts[i])) = needle
         THEN [st EXCEPT !.exact = Some(accounts[i])]
         ELSE MatchLoop(accounts, i + 1, needle,
                        MatchStep(st, accounts[i], needle))

\* mutant: the contained-by match is dropped from the precedence chain
MatchChoice_NoContainedBy(st) ==
    LET token_match == IF st.token_best_score > 0 /\ ~st.token_tie
                       THEN st.token_best ELSE None
    IN  IF st.exact # None THEN st.exact
        ELSE IF st.contains # None THEN st.contains
        ELSE token_match

\* mutant: a contains match is preferred to the exact match
MatchChoice_ContainsFirst(st) ==
    LET token_match == IF st.token_best_score > 0 /\ ~st.token_tie
                       THEN st.token_best ELSE None
    IN  IF st.contains # None THEN st.contains
        ELSE IF st.exact # None THEN st.exact
        ELSE IF st.contained_by # None THEN st.contained_by
        ELSE token_match

\* token_match, then match = exact or contains or contained_by or token_match
MatchChoice(st) ==
    LET token_match == IF st.token_best_score > 0 /\ ~st.token_tie
                       THEN st.token_best ELSE None
    IN  IF st.exact # None THEN st.exact
        ELSE IF st.contains # None THEN st.contains
        ELSE IF st.contained_by # None THEN st.contained_by
        ELSE token_match

\* mutant: the literal-id shortcut is never taken
MatchById_Never(account_name, accounts) == None

\* the literal-id shortcut: the account whose id is int(trimmed), if any
MatchById(account_name, accounts) ==
    LET trimmed == strip(account_name)
    IN  IF isdigit(trimmed) THEN FirstWithId(accounts, int(trimmed)) ELSE None

\* the part of match_account after the literal-id shortcut
MatchByName(account_name, accounts) ==
    LET needle == _normalize(account_name)
    IN  IF needle = <<>> THEN None
        ELSE LET match == MatchChoice(MatchLoop(accounts, 1, needle, MatchInit))
             IN  IF match = None THEN None ELSE Some(IdLabel(match[1]))

\* account_name is str | None; the result is (id, label) | None
match_account(account_name, accounts) ==
    IF account_name = None \/ account_name[1] = <<>> THEN None
    ELSE IF MatchById(account_name[1], accounts) # None
         THEN Some(IdLabel(MatchById(account_name[1], accounts)[1]))
         ELSE MatchByName(account_name[1], accounts)

(***************************************************************************)
(* resolve_account                                                         *)
(***************************************************************************)
\* mutant: a configured default id suppresses the sole-account fallback
ResolveFallback_DefaultBlocksSole(accounts, default_account_id) ==
    IF default_account_id # None
    THEN (IF FirstWithId(accounts, default_account_id[1]) # None
          THEN Some(IdLabel(FirstWithId(accounts, default_account_id[1])[1]))
          ELSE None)
    ELSE IF Len(accounts) = 1 THEN Some(IdLabel(accounts[1]))
    ELSE None

\* the default-id and sole-account fallbacks
ResolveFallback(accounts, default_account_id) ==
    IF default_account_id # None
       /\ FirstWithId(accounts, default_account_id[1]) # None
    THEN Some(IdLabel(FirstWithId(accounts, default_account_id[1])[1]))
    ELSE IF Len(accounts) = 1 THEN Some(IdLabel(accounts[1]))
    ELSE None

resolve_account(account_name, accounts, default_account_id) ==
    IF match_account(account_name, accounts) # None
    THEN match_account(account_name, accounts)
    ELSE ResolveFallback(accounts, default_account_id)

(***************************************************************************)
(* resolve_account_from_text_tokens                                        *)
(***************************************************************************)
\* {account_id for token, account_id in token_map.items() if token in text_tokens}
MappedIds(text_tokens, token_map) ==
    {token_map[token] : token \in DOMAIN token_map \cap text_tokens}

\* mutant: several mapped ids are not treated as ambiguous
ResolveMapped_PickOne(mapped_ids, accounts) ==
    IF mapped_ids = {} THEN None
    ELSE LET account == FirstWithId(accounts, Min(mapped_ids))
         IN  IF account = None THEN None ELSE Some(IdLabel(account[1]))

\* the result once mapped_ids is known
ResolveMapped(mapped_ids, accounts) ==
    IF mapped_ids = {} THEN None
    ELSE IF Cardinality(mapped_ids) > 1 THEN None
    ELSE LET account == FirstWithId(accounts, CHOOSE id \in mapped_ids : TRUE)
         IN  IF account = None THEN None ELSE Some(IdLabel(account[1]))

resolve_account_from_text_tokens(text, accounts, token_map) ==
    IF DOMAIN token_map = {} THEN None
    ELSE IF _find_text_tokens(text) = {} THEN None
    ELSE ResolveMapped(MappedIds(_find_text_tokens(text), token_map), accounts)

(***************************************************************************)
(* Input domains                                                           *)
(***************************************************************************)
MaxAccounts == 2

\* assets the ledger service may list; ids are unique
A1 == Acct(1, None, <<"B", "a", "n", "k", " ", "o", "f", " ", "F", "o", "o">>)
A2 == Acct(2, Some(<<"F", "o", "o", " ", "B", "a", "n", "k">>), <<"f", "b", "-", "i", "n", "t", "e", "r", "n", "a", "l">>)
A3 == Acct(3, None, <<"C", "h", "a", "s", "e", " ", "C", "r", "e", "d", "i", "t">>)
A4 == Acct(4, None, <<"C", "h", "a", "s", "e", " ", "C", "h", "e", "c", "k", "i", "n", "g">>)
A5 == Acct(5, Some(<<>>), <<"C", "a", "s", "h">>)
A6 == Acct(6, None, <<"C", "A", "S", "H", "!">>)
A7 == Acct(7, None, <<"C", "a", "r", "d", " ", "1", "2", "3", "4">>)
A8 == Acct(8, None, <<"P", "e", "t", "t", "y", " ", "C", "a", "s", "h">>)

AccountPool == {A1, A2, A3, A4, A5, A6, A7, A8}

\* every list of at most MaxAccounts distinct assets, in every order
AccountLists ==
    UNION {{l \in [1..n -> AccountPool] :
               \A i, j \in 1..n : i # j => l[i] # l[j]} : n \in 0..MaxAccounts}

\* the "account" field of an extraction, after _safe_str
AccountNames ==
    {None, Some(<<>>), Some(<<"F", "o", "o", " ", "B", "a", "n", "k", " ", "X">>), Some(<<"F", "o", "o", " ", "X", " ", "B", "a", "n", "k">>),
     Some(<<"C", "h", "a", "s", "e", " ", "C", "r", "e", "d", "i", "t">>), Some(<<"c", "h", "a", "s", "e">>), Some(<<"c", "a", "s", "h">>),
     Some(<<"M", "y", " ", "C", "a", "s", "h", " ", "W", "a", "l", "l", "e", "t">>), Some(<<"2">>), Some(<<" ", "0", "7", " ">>), Some(<<"9">>),
     Some(<<"1", "2">>), Some(<<"-", "-">>), Some(<<"f", "o", "o">>), Some(<<"c", "r", "e", "d", "i", "t", " ", "c", "a", "r", "d">>),
     Some(<<"c", "h", "e", "c", "k", "i", "n", "g", " ", "a", "c", "c", "t">>)}

\* message texts
Texts ==
    {<<"l", "u", "n", "c", "h", " ", "1", "2", " ", "c", "a", "s", "h">>, <<"c", "a", "r", "d", " ", "1", "2", "3", "4">>, <<"p", "a", "i", "d", " ", "1", "2", "3", "4", " ", "a", "n", "d", " ", "5", "6", "7", "8">>,
     <<"c", "a", "r", "d", " ", "1", "2", "3", "4", "5", "6", "7", "8">>, <<"x", "x", "9", "0", "1", "2", " ", "c", "o", "f", "f", "e", "e">>, <<"e", "n", "d", "i", "n", "g", " ", "l", "a", "s", "t", "4", "1", "2", "3", "4">>,
     <<"V", "i", "s", "a", " ", "e", "n", "d", "i", "n", "g", " ", "i", "n", " ", "5", "6", "7", "8">>, <<"1", "2", "3", "4", "5">>, <<"E", "N", "D", "S", " ", " ", "W", "I", "T", "H", ":", " ", "9", "0", "1", "2">>}

\* values of ACCOUNT_TOKEN_MAP after _parse_account_token_map
TokenMaps ==
    {<<>>,
     (<<"1", "2", "3", "4">> :> 1) @@ (<<"5", "6", "7", "8">> :> 2),
     (<<"1", "2", "3", "4">> :> 1) @@ (<<"5", "6", "7", "8">> :> 1),
     (<<"1", "2", "3", "4">> :> 9),
     (<<"9", "0", "1", "2">> :> 2) @@ (<<"1", "2">> :> 1)}

\* values of DEFAULT_ACCOUNT_ID
DefaultIds == {None, Some(1), Some(9)}

Chats == 1..2

(***************************************************************************)
(* Direct calls of the resolver functions                                  *)
(***************************************************************************)
ResolveArgs ==
    [fn : {"match_account"}, account_name : AccountNames,
     accounts : AccountLists]
    \cup [fn : {"resolve_account"}, account_name : AccountNames,
          accounts : AccountLists, default_account_id : DefaultIds]
    \cup [fn : {"resolve_account_from_text_tokens"}, text : Texts,
          accounts : AccountLists, token_map : TokenMaps]

InitResolve ==
    /\ _pending = <<>>
    /\ ledger = <<>>
    /\ config = [account_token_map |-> <<>>, default_account_id |-> None,
                 default_currency |-> <<"U", "S", "D">>]
    /\ event = [kind |-> "none", done |-> TRUE]
    /\ arg \in ResolveArgs
    /\ ret = None
    /\ tasks = <<>>

CallMatchAccount ==
    /\ arg.fn = "match_account"
    /\ ret = None
    /\ tasks = <<>>
    /\ ret' = Some(match_account(arg.account_name, arg.accounts))
    /\ UNCHANGED <<_pending, ledger, config, event, arg, tasks>>

CallResolveAccount ==
    /\ arg.fn = "resolve_account"
    /\ ret = None
    /\ tasks = <<>>
    /\ ret' = Some(resolve_account(arg.account_name, arg.accounts,
                                   arg.default_account_id))
    /\ UNCHANGED <<_pending, ledger, config, event, arg, tasks>>

CallResolveFromTokens ==
    /\ arg.fn = "resolve_account_from_text_tokens"
    /\ ret = None
    /\ tasks = <<>>
    /\ ret' = Some(resolve_account_from_text_tokens(arg.text, arg.accounts,
                                                    arg.token_map))
    /\ UNCHANGED <<_pending, ledger, config, event, arg, tasks>>

NextResolve ==
    \/ CallMatchAccount
    \/ CallResolveAccount
    \/ CallResolveFromTokens

SpecResolve == InitResolve /\ [][NextResolve]_vars

(***************************************************************************)
(* Properties of the resolver functions (specification SpecResolve)        *)
(***************************************************************************)
NormLabel(acct) == _normalize(_account_label(acct))

\* the number of distinct words the label of acct shares with needle
Shared(acct, needle) ==
    Cardinality({w \in Range(split(NormLabel(acct))) :
                    \E k \in 1..Len(split(needle)) : split(needle)[k] = w})

HasId(accounts, id) == \E i \in 1..Len(accounts) : accounts[i].id = id

WithId(accounts, id) ==
    accounts[Min({i \in 1..Len(accounts) : accounts[i].id = id})]

\* the precedence exact, contains, contained-by, unique greatest overlap
NameExpected(name, accounts) ==
    LET needle == _normalize(name)
        I == 1..Len(accounts)
        E == {i \in I : NormLabel(accounts[i]) = needle}
        C == {i \in I : In(needle, NormLabel(accounts[i]))}
        B == {i \in I : In(NormLabel(accounts[i]), needle)}
        T == {i \in I :
                /\ Shared(accounts[i], needle) > 0
                /\ \A j \in I \ {i} :
                      Shared(accounts[j], needle) < Shared(accounts[i], needle)}
    IN  IF E # {} THEN Some(IdLabel(accounts[Min(E)]))
        ELSE IF C # {} THEN Some(IdLabel(accounts[Min(C)]))
        ELSE IF B # {} THEN Some(IdLabel(accounts[Min(B)]))
        ELSE IF T # {} THEN Some(IdLabel(accounts[Min(T)]))
        ELSE None

\* the default id if listed, else the sole account, else none
FallbackExpected(accounts, default_account_id) ==
    IF default_account_id # None /\ HasId(accounts, default_account_id[1])
    THEN Some(IdLabel(WithId(accounts, default_account_id[1])))
    ELSE IF Len(accounts) = 1 THEN Some(IdLabel(accounts[1]))
    ELSE None

IsNumericName(account_name) ==
    account_name # None /\ isdigit(strip(account_name[1]))

\* the named match yields nothing: the name is absent, or it is neither the
\* id of a listed account nor matched by any of the four name rules
NamedMatchVoid(account_name, accounts) ==
    \/ account_name = None
    \/ account_name[1] = <<>>
    \/ /\ ~(IsNumericName(account_name)
            /\ HasId(accounts, int(strip(account_name[1]))))
       /\ \/ _normalize(account_name[1]) = <<>>
          \/ NameExpected(account_name[1], accounts) = None

Called(fn) == arg.fn = fn /\ ret # None

\* C6: resolve_account_from_text_tokens returns an account iff the token-map
\* keys found among the 4-digit tokens of the text map to exactly one
\* distinct id and that id is the id of a listed account; it then returns
\* that account, and it returns none for two or more distinct ids, for an
\* unlisted id and when no key is found.
C6_TokenMapExactlyOne ==
    Called("resolve_account_from_text_tokens") =>
        LET found == {k \in DOMAIN arg.token_map : k \in _find_text_tokens(arg.text)}
            ids == {arg.token_map[k] : k \in found}
        IN  /\ (ret[1] # None) <=>
                   (Cardinality(ids) = 1
                    /\ \E id \in ids : HasId(arg.accounts, id))
            /\ ret[1] # None =>
                   \E id \in ids : ret[1] = Some(IdLabel(WithId(arg.accounts, id)))

\* both keys of {"1234": 1, "5678": 2} are in the text, accounts 1 and 2
\* are listed, and the result is none
C6_Witness ==
    /\ Called("resolve_account_from_text_tokens")
    /\ arg.text = <<"p", "a", "i", "d", " ", "1", "2", "3", "4", " ", "a", "n", "d", " ", "5", "6", "7", "8">>
    /\ arg.token_map = (<<"1", "2", "3", "4">> :> 1) @@ (<<"5", "6", "7", "8">> :> 2)
    /\ arg.accounts = <<A1, A2>>
    /\ ret = Some(None)

FooBankQuery(name) ==
    /\ Called("resolve_account")
    /\ arg.accounts \in {<<A1, A2>>, <<A2, A1>>}
    /\ arg.account_name = Some(name)
    /\ arg.default_account_id = None

\* C7 as claimed: for the accounts "Bank of Foo" and "Foo Bank" and the name
\* "Foo Bank X" the resolver returns none.
C7_Original ==
    FooBankQuery(<<"F", "o", "o", " ", "B", "a", "n", "k", " ", "X">>) => ret[1] = None

\* C7 as amended: for the accounts "Bank of Foo" and "Foo Bank" and the name
\* "Foo Bank X" the two accounts tie on token overlap, but the resolver
\* returns "Foo Bank", whose normalized label is contained in the normalized
\* name; for the name "Foo X Bank", where the same tie is the only match,
\* the resolver returns none.
C7_TieBehindContainedBy ==
    /\ FooBankQuery(<<"F", "o", "o", " ", "B", "a", "n", "k", " ", "X">>) =>
          /\ Shared(A1, <<"f", "o", "o", " ", "b", "a", "n", "k", " ", "x">>) = Shared(A2, <<"f", "o", "o", " ", "b", "a", "n", "k", " ", "x">>)
          /\ Shared(A1, <<"f", "o", "o", " ", "b", "a", "n", "k", " ", "x">>) > 0
          /\ ret[1] = Some(IdLabel(A2))
    /\ FooBankQuery(<<"F", "o", "o", " ", "X", " ", "B", "a", "n", "k">>) =>
          /\ Shared(A1, <<"f", "o", "o", " ", "x", " ", "b", "a", "n", "k">>) = Shared(A2, <<"f", "o", "o", " ", "x", " ", "b", "a", "n", "k">>)
          /\ ret[1] = None

C7_Witness ==
    /\ FooBankQuery(<<"F", "o", "o", " ", "B", "a", "n", "k", " ", "X">>)
    /\ arg.accounts = <<A1, A2>>
    /\ ret = Some(Some([id |-> 2, label |-> <<"F", "o", "o", " ", "B", "a", "n", "k">>]))

\* C8: for a non-numeric name with a non-empty normalized form match_account
\* returns the first account with an equal normalized label, else the first
\* whose normalized label contains the name, else the first whose normalized
\* label is contained in the name, else the single account with the strictly
\* greatest non-zero count of shared tokens, else none; "Chase Credit" among
\* "Chase Credit" and "Chase Checking" yields "Chase Credit".
C8_NamePrecedence ==
    Called("match_account") =>
        /\ (/\ arg.account_name # None
            /\ ~IsNumericName(arg.account_name)
            /\ _normalize(arg.account_name[1]) # <<>>)
           => ret[1] = NameExpected(arg.account_name[1], arg.accounts)
        /\ (/\ arg.account_name = Some(<<"C", "h", "a", "s", "e", " ", "C", "r", "e", "d", "i", "t">>)
            /\ arg.accounts \in {<<A3, A4>>, <<A4, A3>>})
           => ret[1] = Some([id |-> 3, label |-> <<"C", "h", "a", "s", "e", " ", "C", "r", "e", "d", "i", "t">>])

\* "Petty Cash" contains "cash" and comes first; "Cash" is the exact match
C8_Witness ==
    /\ Called("match_account")
    /\ arg.account_name = Some(<<"c", "a", "s", "h">>)
    /\ arg.accounts = <<A8, A5>>
    /\ ret = Some(Some([id |-> 5, label |-> <<"C", "a", "s", "h">>]))

\* C9: for a non-empty account list and a name that is a literal numeric id,
\* resolve_account returns the account with that id iff it is listed; when
\* it is not, the result is that of the later strategies (name rules, then
\* default id, then sole account).
C9_NumericId ==
    (Called("resolve_account") /\ Len(arg.accounts) >= 1
        /\ IsNumericName(arg.account_name)) =>
        LET id == int(strip(arg.account_name[1]))
            later == IF NameExpected(arg.account_name[1], arg.accounts) # None
                     THEN NameExpected(arg.account_name[1], arg.accounts)
                     ELSE FallbackExpected(arg.accounts, arg.default_account_id)
        IN  IF HasId(arg.accounts, id)
            THEN ret[1] = Some(IdLabel(WithId(arg.accounts, id)))
            ELSE ret[1] = later /\ (ret[1] # None => ret[1][1].id # id)

\* the name " 07 " selects account 7 although the default id 1 is listed
C9_Witness ==
    /\ Called("resolve_account")
    /\ arg.account_name = Some(<<" ", "0", "7", " ">>)
    /\ arg.accounts = <<A1, A7>>
    /\ arg.default_account_id = Some(1)
    /\ ret = Some(Some([id |-> 7, label |-> <<"C", "a", "r", "d", " ", "1", "2", "3", "4">>]))

\* C10: when the named match yields nothing, resolve_account returns the
\* account with the configured default id if it is listed, otherwise the
\* sole account of a one-account list, otherwise none.
C10_Fallback ==
    (Called("resolve_account")
        /\ NamedMatchVoid(arg.account_name, arg.accounts)) =>
        ret[1] = FallbackExpected(arg.accounts, arg.default_account_id)

\* the default id 9 is configured but not listed; the sole account is used
C10_Witness ==
    /\ Called("resolve_account")
    /\ arg.account_name = None
    /\ arg.accounts = <<A4>>
    /\ arg.default_account_id = Some(9)
    /\ ret = Some(Some([id |-> 4, label |-> <<"C", "h", "a", "s", "e", " ", "C", "h", "e", "c", "k", "i", "n", "g">>]))

(***************************************************************************)
(* Field sanitizers.  A JSON value of the extraction is Null, Str(s),      *)
(* Num(n) or Bool(b).                                                      *)
(***************************************************************************)
Null == [t |-> "null"]
Str(s) == [t |-> "str", s |-> s]
Num(n) == [t |-> "num", n |-> n]
Bool(b) == [t |-> "bool", b |-> b]

\* str(n) for an integer n
RECURSIVE NatToStr(_)
NatToStr(n) ==
    IF n < 10 THEN <<DigitChars[n + 1]>>
    ELSE NatToStr(n \div 10) \o <<DigitChars[(n % 10) + 1]>>

IntToStr(n) == IF n < 0 THEN <<"-">> \o NatToStr(-n) ELSE NatToStr(n)

\* a Python float: a number, or the not-a-number value
Float(v) == [nan |-> FALSE, v |-> v]
NaN == [nan |-> TRUE, v |-> 0]

\* x >= 0, false for NaN as every comparison with NaN is
Ge0(x) == ~x.nan /\ x.v >= 0

\* x == y, false when either is NaN
FloatEq(x, y) == ~x.nan /\ ~y.nan /\ x.v = y.v

\* -x
Neg(x) == IF x.nan THEN x ELSE Float(-x.v)

\* the spellings of not-a-number float() accepts, in any letter case
NaNSpellings == {<<"n", "a", "n">>, <<"+", "n", "a", "n">>, <<"-", "n", "a", "n">>}

\* float(s) for the strings the model uses: an optional sign and decimal
\* digits, or a spelling of not-a-number; any other string raises
\* ValueError (None)
ParseNumber(s) ==
    IF isdigit(s) THEN Some(Float(int(s)))
    ELSE IF Len(s) > 1 /\ s[1] = "-" /\ isdigit(Tail(s))
         THEN Some(Float(-int(Tail(s))))
    ELSE IF Len(s) > 1 /\ s[1] = "+" /\ isdigit(Tail(s))
         THEN Some(Float(int(Tail(s))))
    ELSE IF lower(s) \in NaNSpellings THEN Some(NaN)
    ELSE None

_safe_float(value) ==
    IF value.t = "null" THEN None
    ELSE IF value.t = "num" THEN Some(Float(value.n))
    ELSE IF value.t = "bool" THEN Some(Float(IF value.b THEN 1 ELSE 0))
    ELSE ParseNumber(strip(value.s))

_safe_str(value) ==
    IF value.t = "null" THEN None
    ELSE IF value.t = "str"
         THEN (IF strip(value.s) = <<>> THEN None ELSE Some(strip(value.s)))
    ELSE IF value.t = "num" THEN Some(IntToStr(value.n))
    ELSE Some(IF value.b THEN <<"T", "r", "u", "e">> ELSE <<"F", "a", "l", "s", "e">>)

\* bool(value)
Truthy(value) ==
    IF value.t = "null" THEN FALSE
    ELSE IF value.t = "str" THEN value.s # <<>>
    ELSE IF value.t = "num" THEN value.n # 0
    ELSE value.b

\* abs(x) for a float x; abs(nan) is nan
abs(x) == IF x.nan THEN x ELSE Float(IF x.v < 0 THEN -x.v ELSE x.v)

\* str.upper()
upper(s) ==
    [i \in 1..Len(s) |->
        IF IsLower(s[i]) THEN UpperChars[CHOOSE k \in 1..26 : LowerChars[k] = s[i]]
        ELSE s[i]]

(***************************************************************************)
(* The pending store                                                       *)
(***************************************************************************)
\* mutant: an existing entry is kept (first write wins)
set_pending_KeepFirst(store, chat_id, pending) ==
    [c \in DOMAIN store \cup {chat_id} |->
        IF c \in DOMAIN store THEN store[c] ELSE pending]

\* _pending[chat_id] = pending
set_pending(store, chat_id, pending) ==
    [c \in DOMAIN store \cup {chat_id} |->
        IF c = chat_id THEN pending ELSE store[c]]

\* _pending.get(chat_id)
get_pending(store, chat_id) ==
    IF chat_id \in DOMAIN store THEN Some(store[chat_id]) ELSE None

\* _pending.pop(chat_id, None)
clear_pending(store, chat_id) ==
    [c \in DOMAIN store \ {chat_id} |-> store[c]]

(***************************************************************************)
(* handle_text                                                             *)
(***************************************************************************)
\* parse_transaction_text raised
Raise == [raised |-> TRUE]

\* the dict parse_transaction_text returned
Extraction(payee, amount, currency, account, is_received) ==
    [raised |-> FALSE, payee |-> payee, amount |-> amount,
     currency |-> currency, account |-> account, is_received |-> is_received]

\* mutant: the named-text strategy is tried before the token map
MatchedAccount_NameFirst(text, account_name, accounts, cfg) ==
    IF resolve_account(account_name, accounts, cfg.default_account_id) # None
    THEN resolve_account(account_name, accounts, cfg.default_account_id)
    ELSE resolve_account_from_text_tokens(text, accounts, cfg.account_token_map)

\* mapped_account or resolve_account(...)
MatchedAccount(text, account_name, accounts, cfg) ==
    IF resolve_account_from_text_tokens(text, accounts, cfg.account_token_map) # None
    THEN resolve_account_from_text_tokens(text, accounts, cfg.account_token_map)
    ELSE resolve_account(account_name, accounts, cfg.default_account_id)

\* the PendingTransaction handle_text builds (date and category, which no
\* resolution or store decision depends on, are left out)
PendingTransaction(chat_id, text, result, matched_account, cfg) ==
    [chat_id |-> chat_id,
     original_text |-> text,
     amount |-> abs(_safe_float(result.amount)[1]),
     currency |-> upper(IF _safe_str(result.currency) # None
                        THEN _safe_str(result.currency)[1]
                        ELSE cfg.default_currency),
     payee |-> _safe_str(result.payee)[1],
     account_id |-> matched_account.id,
     account_name |-> matched_account.label,
     is_received |-> Truthy(result.is_received)]

\* the path handle_text takes for the update e; the outcome names the reply
TextResult(e, cfg) ==
    LET text == strip(e.text)
        matched_account ==
            MatchedAccount(text, _safe_str(e.result.account), e.accounts, cfg)
    IN  IF text = <<>> THEN [outcome |-> "ignored", pending |-> None]
        ELSE IF e.accounts = <<>>
             THEN [outcome |-> "no_accounts", pending |-> None]
        ELSE IF e.result.raised
             THEN [outcome |-> "parse_failed", pending |-> None]
        ELSE IF _safe_str(e.result.payee) = None
             THEN [outcome |-> "missing_payee", pending |-> None]
        ELSE IF _safe_float(e.result.amount) = None
             THEN [outcome |-> "missing_amount", pending |-> None]
        ELSE IF matched_account = None
             THEN [outcome |-> "no_account_match", pending |-> None]
        ELSE [outcome |-> "proposed",
              pending |-> Some(PendingTransaction(e.chat, text, e.result,
                                                  matched_account[1], cfg))]

\* mutant: a failed message drops the draft of its chat
StoreAfterText_ClearOnFailure(store, chat_id, r) ==
    IF r.pending # None THEN set_pending(store, chat_id, r.pending[1])
    ELSE clear_pending(store, chat_id)

\* the store after handle_text: set_pending is reached only with a pending
StoreAfterText(store, chat_id, r) ==
    IF r.pending # None THEN set_pending(store, chat_id, r.pending[1])
    ELSE store

(***************************************************************************)
(* insert_transaction and handle_confirm                                   *)
(***************************************************************************)
\* the TransactionInsertObject built from a pending transaction
TxObject(pending) ==
    [payee |-> pending.payee,
     amount |-> IF pending.is_received THEN Neg(abs(pending.amount))
                ELSE abs(pending.amount),
     currency |-> lower(pending.currency),
     status |-> "uncleared",
     asset_id |-> pending.account_id]

\* insert is what client.insert_transactions does ("raise", "empty": no id
\* returned, "id": one id returned) and update_status what
\* client.update_transaction does ("ok", "raise"); next_id is the id the
\* ledger service assigns
insert_transaction(pending, insert, update_status, next_id) ==
    IF insert # "id" THEN [raised |-> TRUE]
    ELSE [raised |-> FALSE, tx_id |-> next_id,
          forced_unreviewed |-> (update_status = "ok")]

\* the path handle_confirm takes for the update e
ConfirmResult(store, e, next_id) ==
    LET pending == get_pending(store, e.chat)
        res == insert_transaction(pending[1], e.insert, e.update_status, next_id)
    IN  IF pending = None
        THEN [outcome |-> "no_pending", pending |-> None, sent |-> None,
              saved |-> FALSE]
        ELSE IF res.raised
        THEN [outcome |-> "save_failed", pending |-> pending,
              sent |-> Some(TxObject(pending[1])), saved |-> FALSE]
        ELSE [outcome |-> IF res.forced_unreviewed THEN "saved"
                          ELSE "saved_unverified",
              pending |-> pending, sent |-> Some(TxObject(pending[1])),
              saved |-> TRUE]

\* mutant: the entry is cleared as soon as it has been read
StoreAfterConfirm_AlwaysClear(store, chat_id, r) ==
    IF r.pending # None THEN clear_pending(store, chat_id) ELSE store

\* mutant: the entry stays in the store after a successful insert
StoreAfterConfirm_NeverClear(store, chat_id, r) == store

\* mutant: the entry is cleared only when the status call succeeded
StoreAfterConfirm_ClearIfForced(store, chat_id, r) ==
    IF r.outcome = "saved" THEN clear_pending(store, chat_id) ELSE store

\* the store after handle_confirm: clear_pending follows a returned id only
StoreAfterConfirm(store, chat_id, r) ==
    IF r.saved THEN clear_pending(store, chat_id) ELSE store

\* the ledger after handle_confirm
LedgerAfterConfirm(led, e, r) ==
    IF r.sent # None /\ e.insert = "id"
    THEN Append(led, [tx |-> r.sent[1], id |-> Len(led) + 1,
                      status_enforced |-> (e.update_status = "ok")])
    ELSE led

(***************************************************************************)
(* Updates and handlers                                                    *)
(***************************************************************************)
MaxInserts == 2

Configs ==
    {[account_token_map |-> (<<"1", "2", "3", "4">> :> 1) @@ (<<"5", "6", "7", "8">> :> 2),
      default_account_id |-> None, default_currency |-> <<"U", "S", "D">>],
     [account_token_map |-> <<>>,
      default_account_id |-> Some(2), default_currency |-> <<"U", "S", "D">>]}

NamedIncome ==
    Extraction(Str(<<"S", "u", "b", "w", "a", "y">>), Str(<<" ", "-", "5", "0", " ">>), Str(<<"u", "s", "d">>),
               Str(<<"F", "o", "o", " ", "B", "a", "n", "k">>), Bool(TRUE))
PlainExpense ==
    Extraction(Str(<<"S", "u", "b", "w", "a", "y">>), Num(50), Null, Null, Bool(FALSE))
NoPayee ==
    Extraction(Str(<<" ", " ">>), Num(50), Null, Str(<<"F", "o", "o", " ", "B", "a", "n", "k">>), Bool(FALSE))
NoAmount ==
    Extraction(Str(<<"S", "u", "b", "w", "a", "y">>), Str(<<"f", "i", "f", "t", "y">>), Null, Str(<<"F", "o", "o", " ", "B", "a", "n", "k">>), Null)
NanExpense ==
    Extraction(Str(<<"S", "u", "b", "w", "a", "y">>), Str(<<"n", "a", "n">>), Null, Null, Bool(FALSE))

\* text, accounts listed by the ledger service, and the extraction
Messages ==
    {<<<<"c", "a", "r", "d", " ", "1", "2", "3", "4">>, <<A1, A2>>, NamedIncome>>,
     <<<<"l", "u", "n", "c", "h", " ", "1", "2", " ", "c", "a", "s", "h">>, <<A1, A2>>, PlainExpense>>,
     <<<<"p", "a", "i", "d", " ", "1", "2", "3", "4", " ", "a", "n", "d", " ", "5", "6", "7", "8">>, <<A5>>, PlainExpense>>,
     <<<<"c", "a", "r", "d", " ", "1", "2", "3", "4">>, <<A1, A2>>, Raise>>,
     <<<<"c", "a", "r", "d", " ", "1", "2", "3", "4">>, <<A1, A2>>, NoPayee>>,
     <<<<"c", "a", "r", "d", " ", "1", "2", "3", "4">>, <<A1, A2>>, NoAmount>>,
     <<<<"c", "a", "r", "d", " ", "1", "2", "3", "4">>, <<>>, NamedIncome>>,
     <<<<" ", " ">>, <<A5>>, PlainExpense>>,
     <<<<"l", "u", "n", "c", "h", " ", "1", "2", " ", "c", "a", "s", "h">>, <<A5>>, NanExpense>>}

TextUpdates ==
    {[kind |-> "text", chat |-> c, text |-> m[1], accounts |-> m[2],
      result |-> m[3], done |-> FALSE, outcome |-> "none"] :
        c \in Chats, m \in Messages}

ConfirmUpdates ==
    {[kind |-> "confirm", chat |-> c, insert |-> o[1], update_status |-> o[2],
      done |-> FALSE, outcome |-> "none", pending |-> None, sent |-> None] :
        c \in Chats,
        o \in {<<"raise", "ok">>, <<"empty", "ok">>, <<"id", "ok">>,
               <<"id", "raise">>}}

CancelUpdates ==
    {[kind |-> "cancel", chat |-> c, done |-> FALSE, outcome |-> "none"] :
        c \in Chats}

NoUpdate == [kind |-> "none", done |-> TRUE]

Init ==
    /\ _pending = <<>>
    /\ ledger = <<>>
    /\ config \in Configs
    /\ event = NoUpdate
    /\ arg = <<>>
    /\ ret = None
    /\ tasks = <<>>

\* the application takes the next update once the previous handler returned
Dispatch ==
    /\ event.done
    /\ \E e \in TextUpdates \cup ConfirmUpdates \cup CancelUpdates :
          /\ (e.kind = "confirm" /\ e.insert = "id") => Len(ledger) < MaxInserts
          /\ event' = e
    /\ UNCHANGED <<_pending, ledger, config, arg, ret, tasks>>

HandleText ==
    /\ event.kind = "text" /\ ~event.done
    /\ LET r == TextResult(event, config)
       IN  /\ _pending' = StoreAfterText(_pending, event.chat, r)
           /\ event' = [event EXCEPT !.done = TRUE, !.outcome = r.outcome]
    /\ UNCHANGED <<ledger, config, arg, ret, tasks>>

HandleConfirm ==
    /\ event.kind = "confirm" /\ ~event.done
    /\ LET r == ConfirmResult(_pending, event, Len(ledger) + 1)
       IN  /\ _pending' = StoreAfterConfirm(_pending, event.chat, r)
           /\ ledger' = LedgerAfterConfirm(ledger, event, r)
           /\ event' = [event EXCEPT !.done = TRUE, !.outcome = r.outcome,
                                     !.pending = r.pending, !.sent = r.sent]
    /\ UNCHANGED <<config, arg, ret, tasks>>

HandleCancel ==
    /\ event.kind = "cancel" /\ ~event.done
    /\ _pending' = clear_pending(_pending, event.chat)
    /\ event' = [event EXCEPT !.done = TRUE, !.outcome = "cancelled"]
    /\ UNCHANGED <<ledger, config, arg, ret, tasks>>

Next ==
    \/ Dispatch
    \/ HandleText
    \/ HandleConfirm
    \/ HandleCancel

Spec == Init /\ [][Next]_vars

(***************************************************************************)
(* Direct calls of the pending store (specification SpecStore)             *)
(***************************************************************************)
MaxCalls == 3

\* two different pending transactions of one chat
EntryA(c) ==
    PendingTransaction(c, <<"c", "a", "r", "d", " ", "1", "2", "3", "4">>, NamedIncome, IdLabel(A1),
                       [default_currency |-> <<"U", "S", "D">>])
EntryB(c) ==
    PendingTransaction(c, <<"l", "u", "n", "c", "h", " ", "1", "2", " ", "c", "a", "s", "h">>, PlainExpense, IdLabel(A2),
                       [default_currency |-> <<"U", "S", "D">>])

StoreCall(fn, c, p) == [fn |-> fn, chat_id |-> c, pending |-> p]

InitStore ==
    /\ _pending = <<>>
    /\ ledger = <<>>
    /\ config = [account_token_map |-> <<>>, default_account_id |-> None,
                 default_currency |-> <<"U", "S", "D">>]
    /\ event = NoUpdate
    /\ arg = <<>>
    /\ ret = None
    /\ tasks = <<>>

CallSetPending ==
    /\ Len(arg) < MaxCalls
    /\ \E c \in Chats : \E p \in {EntryA(c), EntryB(c)} :
          /\ _pending' = set_pending(_pending, c, p)
          /\ arg' = Append(arg, StoreCall("set_pending", c, Some(p)))
          /\ ret' = Some(None)
    /\ UNCHANGED <<ledger, config, event, tasks>>

CallGetPending ==
    /\ Len(arg) < MaxCalls
    /\ \E c \in Chats :
          /\ ret' = Some(get_pending(_pending, c))
          /\ arg' = Append(arg, StoreCall("get_pending", c, None))
    /\ UNCHANGED <<_pending, ledger, config, event, tasks>>

CallClearPending ==
    /\ Len(arg) < MaxCalls
    /\ \E c \in Chats :
          /\ _pending' = clear_pending(_pending, c)
          /\ arg' = Append(arg, StoreCall("clear_pending", c, None))
          /\ ret' = Some(None)
    /\ UNCHANGED <<ledger, config, event, tasks>>

NextStore ==
    \/ CallSetPending
    \/ CallGetPending
    \/ CallClearPending

SpecStore == InitStore /\ [][NextStore]_vars

\* the transaction given to the latest set_pending(c, _) of the log that no
\* clear_pending(c) follows, none if there is no such call
LatestSet(log, c) ==
    LET W == {i \in 1..Len(log) :
                 log[i].chat_id = c /\ log[i].fn \in {"set_pending", "clear_pending"}}
        Max == CHOOSE i \in W : \A j \in W : j <= i
    IN  IF W = {} THEN None ELSE log[Max].pending

\* C1: the store is last-write-wins with one slot per conversation: after
\* any sequence of calls, get_pending(c) returns the transaction of the most
\* recent set_pending(c, _) unless a clear_pending(c) followed it, and none
\* otherwise; an overwritten transaction is no longer retrievable.
C1_LastWriteWins ==
    /\ \A c \in Chats : get_pending(_pending, c) = LatestSet(arg, c)
    /\ (arg # <<>> /\ arg[Len(arg)].fn = "get_pending") =>
           ret = Some(LatestSet(arg, arg[Len(arg)].chat_id))
    /\ \A c \in Chats : \A i \in 1..Len(arg) :
           (/\ arg[i].fn = "set_pending"
            /\ \E j \in (i + 1)..Len(arg) :
                  arg[j].fn = "set_pending" /\ arg[j].chat_id = arg[i].chat_id
                  /\ arg[j].pending # arg[i].pending
            /\ LatestSet(arg, arg[i].chat_id) # arg[i].pending)
           => get_pending(_pending, c) # arg[i].pending

\* set(1, A), set(1, B), get(1) returned B
C1_Witness ==
    /\ arg = <<StoreCall("set_pending", 1, Some(EntryA(1))),
               StoreCall("set_pending", 1, Some(EntryB(1))),
               StoreCall("get_pending", 1, None)>>
    /\ ret = Some(Some(EntryB(1)))

(***************************************************************************)
(* Properties of the handlers (specification Spec)                         *)
(***************************************************************************)
\* the step in which the handler of an update of the given kind runs
Handles(kind) == event.kind = kind /\ ~event.done /\ event'.done

Handled(kind) == event.kind = kind /\ event.done

InsertFailed == event.insert \in {"raise", "empty"}

\* C2: when a confirm is handled and the ledger insert fails (it raises or
\* returns no id), the pending transaction is not cleared and the store is
\* unchanged; every confirm that finds an entry sends the insert built from
\* that entry, so a later confirm sends the same insert again.
C2_FailedInsertKeepsPending ==
    [][(Handles("confirm") /\ get_pending(_pending, event.chat) # None) =>
          /\ event'.sent = Some(TxObject(_pending[event.chat]))
          /\ InsertFailed =>
                /\ _pending' = _pending
                /\ ledger' = ledger
                /\ event'.outcome = "save_failed"]_vars

\* a confirm failed and the entry it read is still the entry of its chat
C2_Witness ==
    /\ Handled("confirm")
    /\ event.insert = "empty"
    /\ event.outcome = "save_failed"
    /\ event.pending # None
    /\ get_pending(_pending, event.chat) = event.pending
    /\ event.sent = Some(TxObject(_pending[event.chat]))

\* C3: when handling a text message fails at any stage (extraction raises,
\* payee missing, amount missing, no account resolved), no pending
\* transaction is created and the store is exactly what it was, including an
\* earlier entry of that conversation.
C3_FailedTextKeepsStore ==
    [][(Handles("text") /\ event'.outcome # "proposed") =>
          _pending' = _pending]_vars

\* the message of a chat with a pending entry could not be resolved to an
\* account and the entry is still there
C3_Witness ==
    /\ Handled("text")
    /\ event.outcome = "no_account_match"
    /\ get_pending(_pending, event.chat) # None

\* C4: once the ledger insert has returned an id during a confirm, the
\* transaction is saved and the pending entry of the conversation is
\* destroyed whether or not the status-enforcement call succeeds; a failure
\* of that call neither leaves the entry in the store nor makes the confirm
\* a failure.
C4_SavedClearsPending ==
    (Handled("confirm") /\ event.pending # None /\ event.insert = "id") =>
        /\ get_pending(_pending, event.chat) = None
        /\ event.outcome \in {"saved", "saved_unverified"}
        /\ event.outcome = "saved_unverified" <=> event.update_status = "raise"
        /\ ledger # <<>>
        /\ ledger[Len(ledger)].tx = event.sent[1]
        /\ ledger[Len(ledger)].tx = TxObject(event.pending[1])

\* the insert returned an id, the status call failed, the entry is gone
C4_Witness ==
    /\ Handled("confirm")
    /\ event.pending # None
    /\ event.insert = "id"
    /\ event.update_status = "raise"
    /\ event.outcome = "saved_unverified"
    /\ get_pending(_pending, event.chat) = None
    /\ Len(ledger) = 1

TokenMapAccount ==
    resolve_account_from_text_tokens(strip(event.text), event.accounts,
                                     config.account_token_map)

NamedAccount ==
    resolve_account(_safe_str(event.result.account), event.accounts,
                    config.default_account_id)

StoredAccount ==
    [id |-> _pending[event.chat].account_id,
     label |-> _pending[event.chat].account_name]

\* C5: the token-map strategy is tried before the named-text strategy:
\* whenever it yields an account, that account is the one stored in the
\* pending transaction, even when the extracted name resolves to another
\* account; the named match, the default id and the sole account are used
\* only when the token-map strategy abstains.
C5_TokenMapFirst ==
    (Handled("text") /\ event.outcome = "proposed") =>
        /\ TokenMapAccount # None => Some(StoredAccount) = TokenMapAccount
        /\ TokenMapAccount = None => Some(StoredAccount) = NamedAccount

\* the text holds the token of account 1, the extracted name is "Foo Bank"
\* (account 2), and account 1 is stored
C5_Witness ==
    /\ Handled("text")
    /\ event.outcome = "proposed"
    /\ TokenMapAccount = Some([id |-> 1, label |-> <<"B", "a", "n", "k", " ", "o", "f", " ", "F", "o", "o">>])
    /\ NamedAccount = Some([id |-> 2, label |-> <<"F", "o", "o", " ", "B", "a", "n", "k">>])
    /\ _pending[event.chat].account_id = 1

\* C11: every pending transaction in the store has a non-negative amount,
\* the absolute value of the extracted amount, and the amount sent to the
\* ledger on confirm is -amount for an income and +amount for an expense,
\* with status uncleared.
C11_NonNegativeAmount ==
    /\ \A c \in DOMAIN _pending : Ge0(_pending[c].amount)
    /\ (Handled("text") /\ event.outcome = "proposed") =>
           FloatEq(_pending[event.chat].amount,
                   abs(_safe_float(event.result.amount)[1]))
    /\ (Handled("confirm") /\ event.sent # None) =>
           /\ event.sent[1].status = "uncleared"
           /\ FloatEq(event.sent[1].amount,
                      IF event.pending[1].is_received
                      THEN Neg(event.pending[1].amount)
                      ELSE event.pending[1].amount)

\* C13: the ledger insert is invoked only by a confirm handled while its
\* conversation has a pending entry, with the fields of that entry; a
\* confirm with an empty slot, a cancel and a text message invoke no insert;
\* a successful insert removes the entry in the same step and a cancel
\* empties the slot, so each entry is inserted at most once and a second
\* confirm, or a confirm after a cancel, inserts nothing.
C13_InsertOnlyFromPending ==
    [][/\ ledger' # ledger =>
             /\ Handles("confirm")
             /\ get_pending(_pending, event.chat) # None
             /\ event.insert = "id"
             /\ Len(ledger') = Len(ledger) + 1
             /\ SubSeq(ledger', 1, Len(ledger)) = ledger
             /\ ledger'[Len(ledger')].tx = TxObject(_pending[event.chat])
             /\ get_pending(_pending', event.chat) = None
       /\ Handles("confirm") =>
             /\ event'.sent # None <=> get_pending(_pending, event.chat) # None
             /\ event'.sent # None =>
                    event'.sent = Some(TxObject(_pending[event.chat]))
             /\ get_pending(_pending, event.chat) = None =>
                    event'.outcome = "no_pending" /\ _pending' = _pending
       /\ Handles("cancel") => get_pending(_pending', event.chat) = None
       /\ (Handles("text") \/ Handles("cancel")) => ledger' = ledger]_vars

\* one transaction is in the ledger, every slot is empty, and the confirm
\* handled last found no entry and invoked no insert
C13_Witness ==
    /\ Handled("confirm")
    /\ event.outcome = "no_pending"
    /\ event.sent = None
    /\ Len(ledger) = 1
    /\ DOMAIN _pending = {}

(***************************************************************************)
(* Handlers as coroutines (specification SpecConc).  A handler runs from   *)
(* one await to the next without interruption; between its awaits the      *)
(* event loop may run any other handler in flight.  All blocking calls      *)
(* (ledger client, extraction) are plain calls, not awaits.                 *)
(***************************************************************************)
MaxTasks == 2

TaskIds == 1..MaxTasks

Idle == [pc |-> "idle"]

\* the updates of the concurrent runs
ConcUpdates ==
    {u \in TextUpdates :
        <<u.text, u.result>> \in {<<<<"c", "a", "r", "d", " ", "1", "2", "3", "4">>, NamedIncome>>,
                                  <<<<"p", "a", "i", "d", " ", "1", "2", "3", "4", " ", "a", "n", "d", " ", "5", "6", "7", "8">>, PlainExpense>>}}
    \cup {u \in ConfirmUpdates :
            <<u.insert, u.update_status>> = <<"id", "ok">>}
    \cup CancelUpdates

ConcConfig == CHOOSE c \in Configs : c.account_token_map # <<>>

\* mutant: the insert is awaited (run off the event loop)
AwaitsBeforeInsert_Yields == TRUE

\* whether handle_confirm awaits between get_pending and clear_pending
AwaitsBeforeInsert == FALSE

InFlight(t) == tasks[t].pc # "idle"

\* the first free place for a new handler coroutine
FirstFree(t) == ~InFlight(t) /\ \A s \in 1..(t - 1) : InFlight(s)

\* confirms suspended before their insert
InsertsToCome == {t \in TaskIds : tasks[t].pc = "read"}

InitConc ==
    /\ _pending = <<>>
    /\ ledger = <<>>
    /\ config = ConcConfig
    /\ event = NoUpdate
    /\ arg = <<>>
    /\ ret = None
    /\ tasks = [t \in TaskIds |-> Idle]

\* a new handle_text runs up to its first await
StepText ==
    /\ \E t \in TaskIds : \E u \in ConcUpdates :
          /\ FirstFree(t) /\ u.kind = "text"
          /\ _pending' = StoreAfterText(_pending, u.chat, TextResult(u, config))
          /\ tasks' = [tasks EXCEPT ![t] = [pc |-> "reply", u |-> u]]
    /\ UNCHANGED <<ledger, config, event, arg, ret>>

\* the store as a confirm that has read its entry sees it
ReadView(task) ==
    IF task.pc = "read"
    THEN (IF task.u.pending = None THEN <<>>
          ELSE (task.u.chat :> task.u.pending[1]))
    ELSE _pending

\* the confirm a step of the place t can run: a new one, or the suspended one
ConfirmsAt(t) ==
    IF tasks[t].pc = "read" THEN {tasks[t].u}
    ELSE {u \in ConcUpdates :
            /\ u.kind = "confirm"
            /\ FirstFree(t)
            /\ Len(ledger) + Cardinality(InsertsToCome) < MaxInserts}

\* handle_confirm runs up to its next await
StepConfirm ==
    /\ \E t \in TaskIds : \E u \in ConfirmsAt(t) :
          IF tasks[t].pc = "idle" /\ AwaitsBeforeInsert
          THEN /\ tasks' = [tasks EXCEPT ![t] =
                               [pc |-> "read",
                                u |-> [u EXCEPT !.pending = get_pending(_pending, u.chat)]]]
               /\ UNCHANGED <<_pending, ledger>>
          ELSE LET r == ConfirmResult(ReadView(tasks[t]), u, Len(ledger) + 1)
               IN  /\ _pending' = StoreAfterConfirm(_pending, u.chat, r)
                   /\ ledger' = LedgerAfterConfirm(ledger, u, r)
                   /\ tasks' = [tasks EXCEPT ![t] =
                                   [pc |-> "reply", u |-> [u EXCEPT !.pending = None]]]
    /\ UNCHANGED <<config, event, arg, ret>>

\* a new handle_cancel runs up to its first await
StepCancel ==
    /\ \E t \in TaskIds : \E u \in ConcUpdates :
          /\ FirstFree(t) /\ u.kind = "cancel"
          /\ _pending' = clear_pending(_pending, u.chat)
          /\ tasks' = [tasks EXCEPT ![t] = [pc |-> "reply", u |-> u]]
    /\ UNCHANGED <<ledger, config, event, arg, ret>>

\* the awaited replies are sent and the handler returns
FinishTask ==
    /\ \E t \in TaskIds :
          /\ tasks[t].pc = "reply"
          /\ tasks' = [tasks EXCEPT ![t] = Idle]
    /\ UNCHANGED <<_pending, ledger, config, event, arg, ret>>

NextConc ==
    \/ StepText
    \/ StepConfirm
    \/ StepCancel
    \/ FinishTask

SpecConc == InitConc /\ [][NextConc]_vars

\* the handler t runs its part that uses the store
Runs(t) == tasks'[t] # tasks[t] /\ tasks'[t].pc # "idle"

Slot(store, c) == get_pending(store, c)

\* C12: with handlers in flight concurrently, a step changes only the entry
\* of the conversation whose handler runs, and a confirm reads, inserts and
\* clears in one uninterrupted step: it is never suspended between its read
\* and its clear, the entry it clears is the entry it inserted, and no
\* set_pending or clear_pending of another handler comes in between.
C12_NoInterleaving ==
    [][/\ \A c \in Chats :
             Slot(_pending', c) # Slot(_pending, c) =>
                 \E t \in TaskIds : Runs(t) /\ tasks'[t].u.chat = c
       /\ \A t \in TaskIds :
             (Runs(t) /\ tasks'[t].u.kind = "confirm") =>
                 LET c == tasks'[t].u.chat
                 IN  /\ tasks'[t].pc = "reply"
                     /\ Slot(_pending', c) # Slot(_pending, c) =>
                            /\ Slot(_pending', c) = None
                            /\ Len(ledger') = Len(ledger) + 1
                            /\ ledger'[Len(ledger')].tx = TxObject(_pending[c])
                     /\ ledger' # ledger =>
                            /\ Slot(_pending, c) # None
                            /\ Slot(_pending', c) = None
                            /\ ledger'[Len(ledger')].tx = TxObject(_pending[c])]_vars

\* a confirm and a text handler of the same conversation are both suspended
\* at their replies; one transaction is saved and the slot holds an entry
C12_Witness ==
    \E t1, t2 \in TaskIds :
        /\ tasks[t1].pc = "reply" /\ tasks[t1].u.kind = "confirm"
        /\ tasks[t2].pc = "reply" /\ tasks[t2].u.kind = "text"
        /\ tasks[t1].u.chat = tasks[t2].u.chat
        /\ Len(ledger) = 1
        /\ Slot(_pending, tasks[t1].u.chat) # None


=============================================================================
